---- MODULE Spec2Model ----
(***************************************************************************)
(* A model of the pdf-api service: the POST /generate-pdf handlers of the  *)
(* Playwright, Puppeteer and PDFKit variants, the frontmatter-stripping    *)
(* step, and the token loop of the PDFKit variant's markdownToPDF.         *)
(*                                                                         *)
(* Text is modelled as a sequence of one-character strings.                *)
(***************************************************************************)
EXTENDS Integers, Sequences, FiniteSets, TLC

VARIABLES
    \* ---- frontmatter stripping (SpecStrip) ----
    sVariant,     \* which variant's stripping step is applied
    sInput,       \* the markdown text handed to the stripping step
    sOnce,        \* the text after one application
    sTwice,       \* the text after a second application
    sPc,          \* "input" | "once" | "twice"
    \* ---- request handlers (Spec) ----
    variant,      \* "playwright" | "puppeteer" | "pdfkit"
    nodeEnv,      \* process.env.NODE_ENV
    testPc,       \* the startup self-test of the rendering engine
    listening,    \* app.listen has been called
    crashed,      \* an exception left a handler or callback uncaught
    pc,           \* per request: position of its handler
    reqMd,        \* per request: the markdown field of the body, as received
    md,           \* per request: the local `markdown` after validation/strip
    stripped,     \* per request: the stripping step has run
    docMade,      \* per request: a PDFDocument has been created
    err,          \* per request: the error caught by the handler's catch
    closeErr,     \* per request: close errors logged by the catch block
    resp,         \* per request: the responses written, in order
    connected,    \* per request: the client is still connected
    page,         \* per request: the session its `page` belongs to
    browserVar,   \* the `browser` variable of each scope
    sessions,     \* the rendering-engine sessions, named by who launched them
    \* ---- markdownToPDF token loop (SpecDraw) ----
    ctx,          \* where the token stream is (which token may come next)
    nTokens,      \* tokens processed so far
    token,        \* the token processed last
    font,         \* doc's current font
    fontSize,     \* doc's current font size
    currentY,     \* markdownToPDF's local currentY, relative to its start
    docDy,        \* how far doc.y, the canvas write position, moved in the last token
    writes        \* the drawing instructions made for the token processed last

stripVars == <<sVariant, sInput, sOnce, sTwice, sPc>>
handlerVars == <<variant, nodeEnv, testPc, listening, crashed, pc, reqMd,
                 md, stripped, docMade, err, closeErr, resp, connected,
                 page, browserVar, sessions>>
drawVars == <<ctx, nTokens, token, font, fontSize, currentY, docDy, writes>>
vars == <<stripVars, handlerVars, drawVars>>

(***************************************************************************)
(* Bounds of the model.                                                    *)
(***************************************************************************)
MaxPieces == 5        \* an input of the stripping step is at most this many pieces
MaxInlineLen == 5     \* characters in an inline token's content
MaxTokens == 7        \* tokens walked by one markdownToPDF call
MaxFenceLines == 50   \* lines of the longest code block
NumReqs == 2          \* concurrent requests

(***************************************************************************)
(* Text helpers.                                                           *)
(***************************************************************************)
NL == "\n"
Dashes == <<"-", "-", "-">>

\* \s of a JavaScript regular expression, over the characters of the model.
IsSpace(c) == c \in {" ", NL}

\* d occurs in s at (1-based) position i.
OccursAt(s, d, i) ==
    /\ i >= 1
    /\ i + Len(d) - 1 <= Len(s)
    /\ \A k \in 1..Len(d) : s[i + k - 1] = d[k]

Drop(s, n) == SubSeq(s, n + 1, Len(s))

\* The greedy \s* at the front of s removed.
RECURSIVE DropSpaces(_)
DropSpaces(s) ==
    IF s # <<>> /\ IsSpace(Head(s)) THEN DropSpaces(Tail(s)) ELSE s

\* String.prototype.trim.
RECURSIVE TrimEnd(_)
TrimEnd(s) ==
    IF s # <<>> /\ IsSpace(s[Len(s)]) THEN TrimEnd(SubSeq(s, 1, Len(s) - 1)) ELSE s
Trim(s) == TrimEnd(DropSpaces(s))

(***************************************************************************)
(* Frontmatter stripping.                                                  *)
(***************************************************************************)
\* The positions at which the closing --- of /^---[\s\S]*?---\s*/ can start.
ClosingAt(s) == {i \in 4..Len(s) : OccursAt(s, Dashes, i)}

Min(S) == CHOOSE x \in S : \A y \in S : x <= y

\* The same replacement with the pattern not anchored: the first ---...---
\* anywhere in the input is removed.
OpeningAt(s) ==
    {i \in 1..Len(s) : OccursAt(s, Dashes, i)
                        /\ \E j \in (i + 3)..Len(s) : OccursAt(s, Dashes, j)}
ReplaceFrontmatterUnanchored(s) ==
    IF OpeningAt(s) # {}
    THEN LET i == Min(OpeningAt(s))
             j == Min({k \in (i + 3)..Len(s) : OccursAt(s, Dashes, k)})
         IN SubSeq(s, 1, i - 1) \o DropSpaces(Drop(s, j + 2))
    ELSE s

\* markdown.replace(/^---[\s\S]*?---\s*/, ''): the pattern is anchored at the
\* start of the input, [\s\S]*? is lazy (the first closing --- ends it) and
\* the trailing \s* is greedy.
ReplaceFrontmatter(s) ==
    IF OccursAt(s, Dashes, 1) /\ ClosingAt(s) # {}
    THEN DropSpaces(Drop(s, Min(ClosingAt(s)) + 2))
    ELSE s

\* /^---\n/.test(markdown), the guard of the PDFKit variant.
GuardFrontmatter(s) == OccursAt(s, Dashes \o <<NL>>, 1)

\* The stripping step of each variant.
StripFrontmatter(v, s) ==
    IF v = "pdfkit"
    THEN IF GuardFrontmatter(s) THEN ReplaceFrontmatter(s) ELSE s
    ELSE ReplaceFrontmatter(s)

Variants == {"playwright", "puppeteer", "pdfkit"}

\* The pieces inputs of the stripping step are built from.
Pieces == {Dashes, Dashes \o <<NL>>, <<NL>>, <<"a">>, <<"-">>}

RECURSIVE Concats(_)
Concats(n) ==
    IF n = 0 THEN {<<>>}
    ELSE LET prev == Concats(n - 1)
         IN prev \cup {p \o q : p \in prev, q \in Pieces}

StripInputs == Concats(MaxPieces)

(***************************************************************************)
(* The stripping step on its own: SpecStrip draws an input and a variant,  *)
(* applies the step, and applies it again to its own result.               *)
(***************************************************************************)
StripIdle ==
    /\ sVariant = "none"
    /\ sInput = <<>>
    /\ sOnce = <<>>
    /\ sTwice = <<>>
    /\ sPc = "off"

StripInit ==
    /\ sVariant \in Variants
    /\ sInput \in StripInputs
    /\ sOnce = <<>>
    /\ sTwice = <<>>
    /\ sPc = "input"

StripOnce ==
    /\ sPc = "input"
    /\ sOnce' = StripFrontmatter(sVariant, sInput)
    /\ sPc' = "once"
    /\ UNCHANGED <<sVariant, sInput, sTwice>>
    /\ UNCHANGED <<handlerVars, drawVars>>

StripAgain ==
    /\ sPc = "once"
    /\ sTwice' = StripFrontmatter(sVariant, sOnce)
    /\ sPc' = "twice"
    /\ UNCHANGED <<sVariant, sInput, sOnce>>
    /\ UNCHANGED <<handlerVars, drawVars>>

(***************************************************************************)
(* The reference of the stripping contract: the input begins with a line   *)
(* consisting solely of ---, and everything up to and including the next   *)
(* such line is removed.                                                   *)
(***************************************************************************)
\* A line consisting solely of --- starts at position i of s.
DashLineAt(s, i) ==
    /\ OccursAt(s, Dashes, i)
    /\ i = 1 \/ s[i - 1] = NL
    /\ i + 2 = Len(s) \/ (i + 3 <= Len(s) /\ s[i + 3] = NL)

ClosingLines(s) == {i \in 4..Len(s) : DashLineAt(s, i)}

\* The end of the line starting at i, its line terminator included.
DashLineEnd(s, i) == IF i + 2 = Len(s) THEN i + 2 ELSE i + 3

RefStrip(s) ==
    IF DashLineAt(s, 1) /\ ClosingLines(s) # {}
    THEN Drop(s, DashLineEnd(s, Min(ClosingLines(s))))
    ELSE s

\* The reference says what the result is in these cases: no leading --- line
\* (unchanged), or a leading --- line with a closing one (the pair removed).
RefDecides(s) == ~DashLineAt(s, 1) \/ ClosingLines(s) # {}

\* C8: for every input the stripping step returns what the reference
\* returns: the leading ---...--- line pair removed when the input begins
\* with a line consisting solely of ---, the input unchanged otherwise
\* (blank space right after a removed pair is not compared).
C8_StripMatchesReference ==
    (sPc \in {"once", "twice"} /\ RefDecides(sInput)) =>
        IF DashLineAt(sInput, 1)
        THEN DropSpaces(sOnce) = DropSpaces(RefStrip(sInput))
        ELSE sOnce = sInput

\* C9: stripping is idempotent: applying the step to its own result changes
\* nothing, for the step of each variant.
C9_StripIdempotent ==
    sPc = "twice" => sTwice = sOnce

\* C9, amended: applying the step to its own result changes nothing when
\* that result does not itself begin with ---.
C9_StripIdempotentUnlessDashesRemain ==
    (sPc = "twice" /\ ~OccursAt(sOnce, Dashes, 1)) => sTwice = sOnce

C9_Witness ==
    /\ sPc = "twice"
    /\ sOnce # sInput
    /\ sOnce # <<>>
    /\ ~OccursAt(sOnce, Dashes, 1)
    /\ sTwice = sOnce


(***************************************************************************)
(* The POST /generate-pdf handlers.                                        *)
(*                                                                         *)
(* A handler is an async function: it runs without interruption up to its  *)
(* next await, so each action below is one such segment, started by the    *)
(* request arriving or by the awaited call returning (or throwing).        *)
(***************************************************************************)
Reqs == 1..NumReqs
Startup == 0                      \* the startup self-test of the engine
Principals == {Startup} \cup Reqs
Undefined == -1                   \* the value of an unassigned `browser`

ReflowVariants == {"playwright", "puppeteer"}
RenderSteps == {"launch", "newPage", "setContent", "pdf", "render"}

\* The request bodies: markdown absent, empty, plain, or with frontmatter.
Markdowns ==
    { [present |-> FALSE, text |-> <<>>],
      [present |-> TRUE, text |-> <<>>],
      [present |-> TRUE, text |-> <<"a">>],
      [present |-> TRUE, text |-> Dashes \o <<NL>> \o Dashes \o <<NL, "a">>] }

\* `!markdown`: undefined and the empty string are falsy.
MarkdownMissingOnlyUndefined(m) == ~m.present
MarkdownMissing(m) == ~m.present \/ m.text = <<>>

\* The scope in which p's `browser` identifier resolves. A handler declares
\* its own (`let browser`); startServer assigns to an undeclared `browser`
\* (Playwright) or to a const of its timer callback (Puppeteer): scope 0.
ScopeSharedGlobal(p) == Startup
ScopeOfBrowser(p) == p

\* `if (browser)` in the catch block.
CatchNeverCloses(b) == FALSE
CatchCloses(b) == b # Undefined

\* The stack field of the 500 body: err.stack in development, else undefined
\* (dropped by JSON); the PDFKit variant sends none.
StackAlways(v, env) == TRUE
StackPresent(v, env) == v \in ReflowVariants /\ env = "development"

NewSession == [launches |-> 0, closeCalls |-> 0, usedBy |-> {}]
Launched(sess, s) == [sess EXCEPT ![s].launches = @ + 1]
Used(sess, s, p) == [sess EXCEPT ![s].usedBy = @ \cup {p}]
CloseCalled(sess, s, p) ==
    [sess EXCEPT ![s].closeCalls = @ + 1, ![s].usedBy = @ \cup {p}]

Response400 == [status |-> 400, kind |-> "json", error |-> "Markdown is required",
                message |-> "", stack |-> FALSE]
Response200 == [status |-> 200, kind |-> "pdf", error |-> "",
                message |-> "", stack |-> FALSE]
Response500(e) == [status |-> 500, kind |-> "json", error |-> "Failed to generate PDF",
                   message |-> e, stack |-> StackPresent(variant, nodeEnv)]

HandlerIdle ==
    /\ variant = "none"
    /\ nodeEnv = "none"
    /\ testPc = "none"
    /\ listening = FALSE
    /\ crashed = FALSE
    /\ pc = <<>>
    /\ reqMd = <<>>
    /\ md = <<>>
    /\ stripped = <<>>
    /\ docMade = <<>>
    /\ err = <<>>
    /\ closeErr = <<>>
    /\ resp = <<>>
    /\ connected = <<>>
    /\ page = <<>>
    /\ browserVar = <<>>
    /\ sessions = <<>>

\* The process after its top-level code has run. The Playwright variant
\* listens only after its self-test; the others listen at once.
HandlerInit ==
    /\ variant \in Variants
    /\ nodeEnv \in {"production", "development"}
    /\ testPc = IF variant \in ReflowVariants THEN "todo" ELSE "none"
    /\ listening = (variant # "playwright")
    /\ crashed = FALSE
    /\ pc = [r \in Reqs |-> "new"]
    /\ reqMd = [r \in Reqs |-> "unset"]
    /\ md = [r \in Reqs |-> <<>>]
    /\ stripped = [r \in Reqs |-> FALSE]
    /\ docMade = [r \in Reqs |-> FALSE]
    /\ err = [r \in Reqs |-> ""]
    /\ closeErr = [r \in Reqs |-> FALSE]
    /\ resp = [r \in Reqs |-> <<>>]
    /\ connected = [r \in Reqs |-> TRUE]
    /\ page = [r \in Reqs |-> Undefined]
    /\ browserVar = [p \in Principals |-> Undefined]
    /\ sessions = [p \in Principals |-> NewSession]

Running == listening /\ ~crashed

\* The catch block of a Reflow handler, entered with error e after the step
\* left the sessions as sess: close the session when `browser` is set, and
\* then (or at once) answer 500.
EnterCatch(r, e, sess) ==
    LET b == browserVar'[ScopeOfBrowser(r)]
    IN /\ err' = [err EXCEPT ![r] = e]
       /\ IF CatchCloses(b)
          THEN /\ sessions' = CloseCalled(sess, b, r)
               /\ pc' = [pc EXCEPT ![r] = "catchClosing"]
               /\ resp' = resp
          ELSE /\ sessions' = sess
               /\ pc' = [pc EXCEPT ![r] = "done"]
               /\ resp' = [resp EXCEPT ![r] = Append(@, Response500(e))]


\* The request arrives: the handler runs up to its first await (Reflow:
\* chromium.launch / puppeteer.launch) or, in the PDFKit variant, to its end
\* (the whole render is synchronous; doc.end() leaves the 'end' event pending).
Receive(r) ==
    /\ Running
    /\ pc[r] = "new"
    /\ \E m \in Markdowns, renderOk \in BOOLEAN :
        /\ reqMd' = [reqMd EXCEPT ![r] =
                IF ~m.present THEN "missing" ELSE IF m.text = <<>> THEN "empty" ELSE "text"]
        /\ IF MarkdownMissing(m)
           THEN /\ resp' = [resp EXCEPT ![r] = Append(@, Response400)]
                /\ pc' = [pc EXCEPT ![r] = "done"]
                /\ UNCHANGED <<md, stripped, docMade, err>>
           ELSE /\ stripped' = [stripped EXCEPT ![r] = TRUE]
                /\ md' = [md EXCEPT ![r] = StripFrontmatter(variant, m.text)]
                /\ IF variant \in ReflowVariants
                   THEN /\ pc' = [pc EXCEPT ![r] = "launching"]
                        /\ UNCHANGED <<docMade, err, resp>>
                   ELSE /\ docMade' = [docMade EXCEPT ![r] = TRUE]
                        /\ IF renderOk
                           THEN /\ pc' = [pc EXCEPT ![r] = "ending"]
                                /\ UNCHANGED <<err, resp>>
                           ELSE /\ pc' = [pc EXCEPT ![r] = "done"]
                                /\ err' = [err EXCEPT ![r] = "render"]
                                /\ resp' = [resp EXCEPT ![r] =
                                        Append(@, Response500("render"))]
    /\ UNCHANGED <<variant, nodeEnv, testPc, listening, crashed, closeErr,
                   connected, page, browserVar, sessions>>
    /\ UNCHANGED <<stripVars, drawVars>>

\* launch returns: `browser` is assigned and browser.newPage() is called; or
\* it throws, and the catch block runs.
LaunchReturns(r) ==
    /\ Running
    /\ pc[r] = "launching"
    /\ \E ok \in BOOLEAN :
        IF ok
        THEN /\ browserVar' = [browserVar EXCEPT ![ScopeOfBrowser(r)] = r]
             /\ page' = [page EXCEPT ![r] = browserVar'[ScopeOfBrowser(r)]]
             /\ sessions' = Used(Launched(sessions, r), page'[r], r)
             /\ pc' = [pc EXCEPT ![r] = "newPage"]
             /\ UNCHANGED <<err, resp>>
        ELSE /\ UNCHANGED <<browserVar, page>>
             /\ EnterCatch(r, "launch", sessions)
    /\ UNCHANGED <<variant, nodeEnv, testPc, listening, crashed, reqMd,
                   md, stripped, docMade, closeErr, connected>>
    /\ UNCHANGED <<stripVars, drawVars>>

\* browser.newPage() returns: page.setDefaultTimeout, then page.setContent is
\* called; or it throws.
NewPageReturns(r) ==
    /\ Running
    /\ pc[r] = "newPage"
    /\ UNCHANGED <<browserVar, page>>
    /\ \E ok \in BOOLEAN :
        IF ok
        THEN /\ sessions' = Used(sessions, page[r], r)
             /\ pc' = [pc EXCEPT ![r] = "setContent"]
             /\ UNCHANGED <<err, resp>>
        ELSE EnterCatch(r, "newPage", sessions)
    /\ UNCHANGED <<variant, nodeEnv, testPc, listening, crashed, reqMd,
                   md, stripped, docMade, closeErr, connected>>
    /\ UNCHANGED <<stripVars, drawVars>>

\* page.setContent returns: page.pdf is called; or it throws (a timeout too).
SetContentReturns(r) ==
    /\ Running
    /\ pc[r] = "setContent"
    /\ UNCHANGED <<browserVar, page>>
    /\ \E ok \in BOOLEAN :
        IF ok
        THEN /\ sessions' = Used(sessions, page[r], r)
             /\ pc' = [pc EXCEPT ![r] = "pdf"]
             /\ UNCHANGED <<err, resp>>
        ELSE EnterCatch(r, "setContent", sessions)
    /\ UNCHANGED <<variant, nodeEnv, testPc, listening, crashed, reqMd,
                   md, stripped, docMade, closeErr, connected>>
    /\ UNCHANGED <<stripVars, drawVars>>

\* page.pdf returns the buffer: browser.close() is called; or it throws.
PdfReturns(r) ==
    /\ Running
    /\ pc[r] = "pdf"
    /\ UNCHANGED <<browserVar, page>>
    /\ \E ok \in BOOLEAN :
        IF ok
        THEN /\ sessions' = CloseCalled(sessions, browserVar[ScopeOfBrowser(r)], r)
             /\ pc' = [pc EXCEPT ![r] = "closing"]
             /\ UNCHANGED <<err, resp>>
        ELSE EnterCatch(r, "pdf", sessions)
    /\ UNCHANGED <<variant, nodeEnv, testPc, listening, crashed, reqMd,
                   md, stripped, docMade, closeErr, connected>>
    /\ UNCHANGED <<stripVars, drawVars>>

\* browser.close() of the success path returns: res.set (which throws on a
\* filename that is no legal header value) and res.send; or close throws.
\* The request's filename is read here for the first time, so whether it is
\* a legal header value is drawn here.
CloseReturns(r) ==
    /\ Running
    /\ pc[r] = "closing"
    /\ UNCHANGED <<browserVar, page>>
    /\ \E ok \in BOOLEAN, fnameOk \in BOOLEAN :
        IF ~ok
        THEN EnterCatch(r, "close", sessions)
        ELSE IF ~fnameOk
        THEN EnterCatch(r, "header", sessions)
        ELSE /\ resp' = [resp EXCEPT ![r] = Append(@, Response200)]
             /\ pc' = [pc EXCEPT ![r] = "done"]
             /\ UNCHANGED <<err, sessions>>
    /\ UNCHANGED <<variant, nodeEnv, testPc, listening, crashed, reqMd,
                   md, stripped, docMade, closeErr, connected>>
    /\ UNCHANGED <<stripVars, drawVars>>

\* browser.close() of the catch block returns or throws (caught and logged):
\* the 500 response is sent with the error the catch block was entered with.
CatchCloseReturns(r) ==
    /\ Running
    /\ pc[r] = "catchClosing"
    /\ \E ok \in BOOLEAN :
        closeErr' = [closeErr EXCEPT ![r] = ~ok]
    /\ resp' = [resp EXCEPT ![r] = Append(@, Response500(err[r]))]
    /\ pc' = [pc EXCEPT ![r] = "done"]
    /\ UNCHANGED <<variant, nodeEnv, testPc, listening, crashed, reqMd,
                   md, stripped, docMade, err, connected, page, browserVar,
                   sessions>>
    /\ UNCHANGED <<stripVars, drawVars>>

\* The PDFKit document's 'end' event: the listener runs from the event loop,
\* outside the handler's try block. res.set throws on a filename that is no
\* legal header value, and nothing catches it.
DocEnd(r) ==
    /\ Running
    /\ pc[r] = "ending"
    /\ \E fnameOk \in BOOLEAN :
        IF fnameOk
        THEN /\ resp' = [resp EXCEPT ![r] = Append(@, Response200)]
             /\ crashed' = crashed
        ELSE /\ crashed' = TRUE
             /\ resp' = resp
    /\ pc' = [pc EXCEPT ![r] = "done"]
    /\ UNCHANGED <<variant, nodeEnv, testPc, listening, reqMd, md,
                   stripped, docMade, err, closeErr, connected, page, browserVar,
                   sessions>>
    /\ UNCHANGED <<stripVars, drawVars>>

\* The client goes away while its request is being rendered. No handler
\* looks at the connection.
Disconnect(r) ==
    /\ Running
    /\ connected[r]
    /\ pc[r] \in {"launching", "newPage", "setContent", "pdf"}
    /\ connected' = [connected EXCEPT ![r] = FALSE]
    /\ UNCHANGED <<variant, nodeEnv, testPc, listening, crashed, pc, reqMd,
                   md, stripped, docMade, err, closeErr, resp, page,
                   browserVar, sessions>>
    /\ UNCHANGED <<stripVars, drawVars>>

\* The self-test launches a session and, when launch returns, closes it.
\* Playwright: before listening, a failure exits the process.
\* Puppeteer: from a timer after listening, a failure is logged.
TestLaunch ==
    /\ ~crashed
    /\ testPc = "todo"
    /\ \E ok \in BOOLEAN :
        IF ok
        THEN /\ browserVar' = [browserVar EXCEPT ![ScopeOfBrowser(Startup)] = Startup]
             /\ sessions' = CloseCalled(Launched(sessions, Startup),
                                        browserVar'[ScopeOfBrowser(Startup)], Startup)
             /\ testPc' = "closing"
        ELSE /\ testPc' = IF variant = "playwright" THEN "exited" ELSE "failed"
             /\ UNCHANGED <<browserVar, sessions>>
    /\ UNCHANGED <<variant, nodeEnv, listening, crashed, pc, reqMd, md,
                   stripped, docMade, err, closeErr, resp, connected, page>>
    /\ UNCHANGED <<stripVars, drawVars>>

TestCloseReturns ==
    /\ ~crashed
    /\ testPc = "closing"
    /\ \E ok \in BOOLEAN :
        IF ok
        THEN /\ testPc' = "done"
             /\ listening' = TRUE
        ELSE /\ testPc' = IF variant = "playwright" THEN "exited" ELSE "failed"
             /\ listening' = listening
    /\ UNCHANGED <<variant, nodeEnv, crashed, pc, reqMd, md, stripped,
                   docMade, err, closeErr, resp, connected, page, browserVar,
                   sessions>>
    /\ UNCHANGED <<stripVars, drawVars>>


(***************************************************************************)
(* markdownToPDF: the loop over the tokens of markdown-it.                 *)
(***************************************************************************)
Star == <<"*">>
StarStar == <<"*", "*">>
\* The backquote that delimits a code span, written "^" here.
Tick == <<"^">>

HasNL(s) == \E k \in 1..Len(s) : s[k] = NL

\* d(.*?)d tried at position p of s: where the closing d starts, 0 when the
\* pattern does not match at p. The group is lazy, and . matches no newline.
MatchClose(s, d, p) ==
    LET ends == {q \in (p + Len(d))..Len(s) :
                    /\ OccursAt(s, d, q)
                    /\ ~HasNL(SubSeq(s, p + Len(d), q - 1))}
    IN IF OccursAt(s, d, p) /\ ends # {} THEN Min(ends) ELSE 0

\* text.replace(/d(.*?)d/g, callback) with a callback that returns the empty string: the
\* text left, and the captured groups in the order the callback saw them.
RECURSIVE ReplaceSpans(_, _, _, _, _)
ReplaceSpans(s, d, p, out, spans) ==
    IF p > Len(s) THEN [text |-> out, spans |-> spans]
    ELSE LET q == MatchClose(s, d, p)
         IN IF q # 0
            THEN ReplaceSpans(s, d, q + Len(d), out,
                              Append(spans, SubSeq(s, p + Len(d), q - 1)))
            ELSE ReplaceSpans(s, d, p + 1, Append(out, s[p]), spans)

\* new PDFDocument({ margin: 50, size: 'A4' }): an A4 page is 841.89 points
\* high, taken as 842; what lies between the two margins is usable.
PageHeight == 842
Margin == 50
UsableHeight == PageHeight - (2 * Margin)

\* content.split('\n').length
Lines(s) == Cardinality({k \in 1..Len(s) : s[k] = NL}) + 1

\* doc.text moves doc.y down one line height for each line it sets; the
\* line height grows with the font size and is taken as the font size.
LineAdvance(sz) == sz

\* A drawing instruction; h is the vertical extent that has to fit on one
\* page: for text one line, the library breaking pages between lines.
TextWrite(t, f, sz, cont) ==
    [kind |-> "text", text |-> t, font |-> f, size |-> sz, continued |-> cont,
     h |-> LineAdvance(sz)]

\* How far a sequence of instructions moves doc.y: a non-continued text
\* write ends its line or lines, nothing else moves it.
RECURSIVE Advance(_)
Advance(ws) ==
    IF ws = <<>> THEN 0
    ELSE Advance(Tail(ws))
         + (IF ws[1].kind = "text" /\ ~ws[1].continued
            THEN Lines(ws[1].text) * LineAdvance(ws[1].size)
            ELSE 0)

\* The writes of one callback kind: each captured group, in font f, continued.
SpanWrites(spans, f, sz) == [k \in 1..Len(spans) |-> TextWrite(spans[k], f, sz, TRUE)]

\* case 'inline': bold, then italic, then code spans are written as the
\* three replace calls find them; what is left of the text is written after
\* them, unless it is blank.
InlineResult(content, f, sz) ==
    LET b == ReplaceSpans(content, StarStar, 1, <<>>, <<>>)
        i == ReplaceSpans(b.text, Star, 1, <<>>, <<>>)
        c == ReplaceSpans(i.text, Tick, 1, <<>>, <<>>)
        styled == Len(b.spans) + Len(i.spans) + Len(c.spans) > 0
        f2 == IF styled THEN "Helvetica" ELSE f
    IN [font |-> f2,
        writes |-> SpanWrites(b.spans, "Helvetica-Bold", sz)
                   \o SpanWrites(i.spans, "Helvetica-Oblique", sz)
                   \o SpanWrites(c.spans, "Courier", sz)
                   \o (IF Trim(c.text) # <<>>
                       THEN <<TextWrite(c.text, f2, sz, FALSE)>>
                       ELSE <<>>)]

Max(a, b) == IF a >= b THEN a ELSE b

\* A heading size that loses three points a level.
HeadingFontSizeStepThree(level) == Max(24 - (level * 3), 12)

\* Math.max(24 - (level * 2), 12)
HeadingFontSize(level) == Max(24 - (level * 2), 12)

\* The characters an inline token's content is made of.
InlineChars == {"a", "b", "*"}

RECURSIVE Strings(_)
Strings(n) ==
    IF n = 0 THEN {<<>>}
    ELSE LET prev == Strings(n - 1)
         IN prev \cup {Append(p, c) : p \in prev, c \in InlineChars}

\* What markdown-it can hand over as the content of an inline token: the
\* text of a block, trimmed; a block of three or more * is a rule and one
\* starting with "* " is a list item, so neither is a paragraph's content.
IsInlineContent(s) ==
    /\ s # <<>>
    /\ ~IsSpace(s[1])
    /\ ~IsSpace(s[Len(s)])
    /\ ~(Len(s) >= 2 /\ s[1] = "*" /\ s[2] = " ")
    /\ ~(Len(s) >= 3 /\ \A k \in 1..Len(s) : s[k] \in {"*", " "})

InlineContents == {s \in Strings(MaxInlineLen) : IsInlineContent(s)}

\* The content of a fence token of n lines: each line and its line end.
FenceOf(n) == [k \in 1..(2 * n) |-> IF k % 2 = 1 THEN "a" ELSE NL]

FenceContents == {FenceOf(n) : n \in {1, MaxFenceLines}}

Tok(ty, lv, c) == [type |-> ty, level |-> lv, content |-> c]

\* The tokens that can follow, by the place in the token stream, with the
\* place each leads to. A list item holds one paragraph.
NextTokens(c) ==
    CASE c.at = "block" ->
            {<<Tok("paragraph_open", 0, <<>>), [c EXCEPT !.at = "para"]>>,
             <<Tok("hr", 0, <<>>), c>>}
            \cup {<<Tok("fence", 0, s), c>> : s \in FenceContents}
            \cup {<<Tok("heading_open", l, <<>>), [c EXCEPT !.at = "head"]>> : l \in 1..6}
            \cup (IF c.inList THEN {}
                  ELSE {<<Tok("bullet_list_open", 0, <<>>), [at |-> "list", inList |-> TRUE]>>})
      [] c.at = "para" ->
            {<<Tok("inline", 0, s), [c EXCEPT !.at = "paraEnd"]>> : s \in InlineContents}
      [] c.at = "paraEnd" ->
            {<<Tok("paragraph_close", 0, <<>>),
               [c EXCEPT !.at = IF c.inList THEN "itemEnd" ELSE "block"]>>}
      [] c.at = "head" ->
            {<<Tok("inline", 0, s), [c EXCEPT !.at = "headEnd"]>> :
                s \in InlineContents \cup {<<>>}}
      [] c.at = "headEnd" ->
            {<<Tok("heading_close", 0, <<>>), [c EXCEPT !.at = "block"]>>}
      [] c.at = "list" ->
            {<<Tok("list_item_open", 0, <<>>), [c EXCEPT !.at = "item"]>>,
             <<Tok("bullet_list_close", 0, <<>>), [at |-> "block", inList |-> FALSE]>>}
      [] c.at = "item" ->
            {<<Tok("paragraph_open", 0, <<>>), [c EXCEPT !.at = "para"]>>}
      [] c.at = "itemEnd" ->
            {<<Tok("list_item_close", 0, <<>>), [c EXCEPT !.at = "list"]>>}

NoToken == Tok("none", 0, <<>>)

DrawIdle ==
    /\ ctx = [at |-> "off", inList |-> FALSE]
    /\ nTokens = 0
    /\ token = NoToken
    /\ font = "none"
    /\ fontSize = 0
    /\ currentY = 0
    /\ docDy = 0
    /\ writes = <<>>

\* markdownToPDF is entered after the handler wrote the title in
\* Helvetica-Bold 20; currentY counts from doc.y at that point.
DrawInit ==
    /\ ctx = [at |-> "block", inList |-> FALSE]
    /\ nTokens = 0
    /\ token = NoToken
    /\ font = "Helvetica-Bold"
    /\ fontSize = 20
    /\ currentY = 0
    /\ docDy = 0
    /\ writes = <<>>

\* One turn of tokens.forEach takes the next token n[1] of the stream.
Take(n) ==
    /\ token' = n[1]
    /\ ctx' = n[2]
    /\ nTokens' = nTokens + 1
    /\ UNCHANGED <<stripVars, handlerVars>>

\* The tokens of type ty that can come next.
Coming(ty) ==
    IF ctx.at # "off" /\ nTokens < MaxTokens
    THEN {n \in NextTokens(ctx) : n[1].type = ty}
    ELSE {}

\* case 'heading_open'
HeadingOpen ==
    \E n \in Coming("heading_open") :
        /\ Take(n)
        /\ fontSize' = HeadingFontSize(n[1].level)
        /\ font' = "Helvetica-Bold"
        /\ currentY' = currentY + 10
        /\ writes' = <<>>
        /\ docDy' = 0

\* case 'heading_close'
HeadingClose ==
    \E n \in Coming("heading_close") :
        /\ Take(n)
        /\ currentY' = currentY + 10
        /\ font' = "Helvetica"
        /\ fontSize' = 12
        /\ writes' = <<>>
        /\ docDy' = 0

\* case 'paragraph_open'
ParagraphOpen ==
    \E n \in Coming("paragraph_open") :
        /\ Take(n)
        /\ currentY' = currentY + 5
        /\ writes' = <<>>
        /\ docDy' = 0
        /\ UNCHANGED <<font, fontSize>>

\* case 'paragraph_close'
ParagraphClose ==
    \E n \in Coming("paragraph_close") :
        /\ Take(n)
        /\ currentY' = currentY + 10
        /\ writes' = <<>>
        /\ docDy' = 0
        /\ UNCHANGED <<font, fontSize>>

\* case 'inline'
Inline ==
    \E n \in Coming("inline") :
        /\ Take(n)
        /\ IF n[1].content # <<>>
           THEN /\ writes' = InlineResult(n[1].content, font, fontSize).writes
                /\ font' = InlineResult(n[1].content, font, fontSize).font
           ELSE /\ writes' = <<>>
                /\ font' = font
        /\ docDy' = Advance(writes')
        /\ UNCHANGED <<fontSize, currentY>>

\* case 'code_block' / 'fence'
Fence ==
    \E n \in Coming("fence") :
        /\ Take(n)
        /\ IF n[1].content # <<>>
           THEN /\ currentY' = currentY + 10 + 15
                /\ writes' = <<[kind |-> "rect", text |-> <<>>, font |-> font,
                                size |-> fontSize, continued |-> FALSE,
                                h |-> (Lines(n[1].content) * 15) + 10],
                               TextWrite(n[1].content, "Courier", 10, FALSE)>>
                /\ font' = "Helvetica"
                /\ fontSize' = 12
           ELSE /\ writes' = <<>>
                /\ UNCHANGED <<font, fontSize, currentY>>
        /\ docDy' = Advance(writes')

\* case 'bullet_list_open'
BulletListOpen ==
    \E n \in Coming("bullet_list_open") :
        /\ Take(n)
        /\ currentY' = currentY + 5
        /\ writes' = <<>>
        /\ docDy' = 0
        /\ UNCHANGED <<font, fontSize>>

\* case 'list_item_open': the bullet glyph (written "o" here) and a space.
ListItemOpen ==
    \E n \in Coming("list_item_open") :
        /\ Take(n)
        /\ writes' = <<TextWrite(<<"o", " ">>, font, fontSize, TRUE)>>
        /\ docDy' = Advance(writes')
        /\ UNCHANGED <<font, fontSize, currentY>>

\* case 'list_item_close'
ListItemClose ==
    \E n \in Coming("list_item_close") :
        /\ Take(n)
        /\ currentY' = currentY + 5
        /\ writes' = <<>>
        /\ docDy' = 0
        /\ UNCHANGED <<font, fontSize>>

\* case 'hr'
Hr ==
    \E n \in Coming("hr") :
        /\ Take(n)
        /\ currentY' = currentY + 10 + 10
        /\ writes' = <<[kind |-> "line", text |-> <<>>, font |-> font,
                        size |-> fontSize, continued |-> FALSE, h |-> 0]>>
        /\ docDy' = Advance(writes')
        /\ UNCHANGED <<font, fontSize>>

\* A token type the switch has no case for.
BulletListClose ==
    \E n \in Coming("bullet_list_close") :
        /\ Take(n)
        /\ writes' = <<>>
        /\ docDy' = 0
        /\ UNCHANGED <<font, fontSize, currentY>>

(***************************************************************************)
(* The specifications.                                                     *)
(***************************************************************************)
Init == StripIdle /\ HandlerInit /\ DrawIdle
Next ==
    \/ TestLaunch
    \/ TestCloseReturns
    \/ \E r \in Reqs : Receive(r)
    \/ \E r \in Reqs : LaunchReturns(r)
    \/ \E r \in Reqs : NewPageReturns(r)
    \/ \E r \in Reqs : SetContentReturns(r)
    \/ \E r \in Reqs : PdfReturns(r)
    \/ \E r \in Reqs : CloseReturns(r)
    \/ \E r \in Reqs : CatchCloseReturns(r)
    \/ \E r \in Reqs : DocEnd(r)
    \/ \E r \in Reqs : Disconnect(r)
Spec == Init /\ [][Next]_vars

\* Whether an awaited render step is called under a finite timeout. The
\* Playwright handler passes timeout: 30000 to page.setContent and no timeout
\* to page.pdf, which takes none: page.setDefaultTimeout reaches only the calls
\* that take a timeout option. The Puppeteer handler passes timeout: 30000 to
\* both.
UnderTimeout(v, step) ==
    CASE v = "playwright" -> step = "setContent"
      [] v = "puppeteer" -> step \in {"setContent", "pdf"}
      [] OTHER -> FALSE

\* An awaited step called under a timeout settles: it returns or it throws
\* when the time is up. browser.close() is taken to settle as well. A step
\* called under no timeout may stay pending for ever.
Settles ==
    \A r \in Reqs :
        /\ WF_vars(UnderTimeout(variant, "setContent") /\ SetContentReturns(r))
        /\ WF_vars(UnderTimeout(variant, "pdf") /\ PdfReturns(r))
        /\ WF_vars(CloseReturns(r))
        /\ WF_vars(CatchCloseReturns(r))

SpecLive == Spec /\ Settles

InitStrip == StripInit /\ HandlerIdle /\ DrawIdle
NextStrip == StripOnce \/ StripAgain
SpecStrip == InitStrip /\ [][NextStrip]_vars

InitDraw == StripIdle /\ HandlerIdle /\ DrawInit
NextDraw ==
    \/ HeadingOpen
    \/ HeadingClose
    \/ ParagraphOpen
    \/ ParagraphClose
    \/ Inline
    \/ Fence
    \/ BulletListOpen
    \/ ListItemOpen
    \/ ListItemClose
    \/ Hr
    \/ BulletListClose
SpecDraw == InitDraw /\ [][NextDraw]_vars

(***************************************************************************)
(* Properties of the handlers, checked under Spec.                         *)
(***************************************************************************)
LaunchedBy(r) == variant \in ReflowVariants /\ sessions[r].launches >= 1
Finished(r) == pc[r] = "done" \/ resp[r] # <<>>
InFlight(r) == pc[r] \in {"newPage", "setContent", "pdf", "closing", "catchClosing"}

\* C1: once a request has launched a session, no handler finishes or
\* responds before a close of that session has been attempted, whichever
\* step failed and whether or not the client is still connected.
C1_CloseAttemptedOnEveryExit ==
    \A r \in Reqs : (LaunchedBy(r) /\ Finished(r)) => sessions[r].closeCalls >= 1

C1_Witness ==
    \E r \in Reqs :
        /\ LaunchedBy(r)
        /\ pc[r] = "done"
        /\ err[r] = "pdf"
        /\ ~connected[r]
        /\ sessions[r].closeCalls >= 1

\* C2: for every request that launched a session, close is invoked exactly
\* once over the whole handling of the request, whatever the failure point.
C2_ClosedExactlyOnce ==
    \A r \in Reqs : (LaunchedBy(r) /\ pc[r] = "done") => sessions[r].closeCalls = 1

\* C3: a failing close never changes the outcome: after a failed render step
\* the 500 response carries that step's message, and when the capture
\* succeeded and only the close threw the client still gets the 200 PDF.
C3_CloseFailureKeepsOutcome ==
    \A r \in Reqs : (LaunchedBy(r) /\ pc[r] = "done") =>
        /\ (closeErr[r] /\ err[r] \in RenderSteps) =>
                (Len(resp[r]) = 1 /\ resp[r][1].status = 500 /\ resp[r][1].message = err[r])
        /\ err[r] = "close" => (Len(resp[r]) = 1 /\ resp[r][1].status = 200)

\* C4: a 200 PDF response is sent only if no render step failed; a request
\* whose render step failed gets exactly one response, the 500 JSON body
\* with the step's message and no PDF bytes; the stack field is present only
\* outside production.
C4_RenderFailureIs500 ==
    \A r \in Reqs :
        /\ \A i \in 1..Len(resp[r]) :
              /\ resp[r][i].status = 200 => err[r] \notin RenderSteps
              /\ resp[r][i].stack => nodeEnv # "production"
        /\ (pc[r] = "done" /\ err[r] \in RenderSteps) =>
              /\ Len(resp[r]) = 1
              /\ resp[r][1].status = 500
              /\ resp[r][1].kind = "json"
              /\ resp[r][1].error = "Failed to generate PDF"
              /\ resp[r][1].message = err[r]

C4_Witness ==
    \E r \in Reqs :
        /\ pc[r] = "done"
        /\ err[r] = "setContent"
        /\ nodeEnv = "development"
        /\ Len(resp[r]) = 1
        /\ resp[r][1].status = 500
        /\ resp[r][1].stack

\* C5: a request whose markdown field is missing or empty is answered 400
\* {error: 'Markdown is required'} and nothing else happens for it: no
\* stripping, no session launch, no PDF document, no PDF bytes.
C5_MissingMarkdownIs400 ==
    \A r \in Reqs : reqMd[r] \in {"missing", "empty"} =>
        /\ resp[r] = <<Response400>>
        /\ pc[r] = "done"
        /\ ~stripped[r]
        /\ ~docMade[r]
        /\ sessions[r].launches = 0
        /\ sessions[r].usedBy = {}

C5_Witness ==
    \E r \in Reqs : reqMd[r] = "empty" /\ resp[r] = <<Response400>>

\* C6: no exception raised while handling a request goes uncaught, in the
\* handler or in a callback it registered: every finished request has its
\* response and the process is never brought down.
C6_NoUncaughtException ==
    /\ ~crashed
    /\ \A r \in Reqs : pc[r] = "done" => resp[r] # <<>>

\* C7: each request launches at most one session, and every call made on a
\* session is made by the one that launched it: no session is used or closed
\* by two requests, nor by the self-test and a request.
C7_SessionsNotShared ==
    \A s \in Principals :
        /\ sessions[s].launches <= 1
        /\ sessions[s].usedBy \subseteq {s}

C7_Witness ==
    \E r1, r2 \in Reqs :
        /\ r1 # r2
        /\ InFlight(r1) /\ InFlight(r2)
        /\ sessions[r1].usedBy = {r1}
        /\ sessions[r2].usedBy = {r2}
        /\ sessions[Startup].usedBy = {Startup}
        /\ sessions[r1].closeCalls = 1

(***************************************************************************)
(* Properties of the token loop, checked under SpecDraw.                   *)
(***************************************************************************)
IsVisibleChar(c) == c # "*"
Visible(s) == SelectSeq(s, IsVisibleChar)
CountStars(s) == Cardinality({k \in 1..Len(s) : s[k] = "*"})

\* One span, *x* or **x**, with x not empty and not starting or ending in a
\* space, in text that has no other star: markdown shows pre x post.
SimplyStyled(s) ==
    \E d \in {Star, StarStar} :
        \E i \in 1..Len(s), j \in 1..Len(s) :
            /\ OccursAt(s, d, i)
            /\ OccursAt(s, d, j)
            /\ j > i + Len(d)
            /\ CountStars(s) = 2 * Len(d)
            /\ ~IsSpace(s[i + Len(d)])
            /\ ~IsSpace(s[j - 1])

RECURSIVE Emitted(_)
Emitted(ws) ==
    IF ws = <<>> THEN <<>>
    ELSE (IF Head(ws).kind = "text" THEN Head(ws).text ELSE <<>>) \o Emitted(Tail(ws))

\* C10: the characters written for an inline token are the visible
\* characters of its content, each once and in document order, with no
\* style delimiter among them (stated for content without stars or with one
\* well-formed span, where the visible characters are beyond doubt).
C10_InlineEmitsVisibleInOrder ==
    (token.type = "inline" /\ (CountStars(token.content) = 0 \/ SimplyStyled(token.content)))
        => Emitted(writes) = Visible(token.content)

\* C12: on heading_open the font size is 24 less twice the level and never
\* under 12, so it is 22, 20, 18, 16, 14, 12 for levels 1 to 6 and a deeper
\* heading is strictly smaller; on heading_close the font is back to
\* Helvetica at size 12.
HeadingLevels == 1..6

C12_HeadingSizeByLevel ==
    /\ token.type = "heading_open" =>
          /\ token.level \in HeadingLevels
          /\ fontSize + (2 * token.level) = 24
          /\ fontSize >= 12
          /\ \A deeper \in HeadingLevels :
                deeper > token.level => HeadingFontSize(deeper) < fontSize
    /\ token.type = "heading_close" => (font = "Helvetica" /\ fontSize = 12)

\* The deepest heading, opened after an earlier heading was closed.
C12_Witness ==
    /\ token.type = "heading_open"
    /\ token.level = 6
    /\ fontSize = 12
    /\ font = "Helvetica-Bold"
    /\ nTokens = 4
    /\ currentY = 30

\* C15: once an inline token is processed no continued text run is left
\* open: if a write with continued: true was made for it (a bold, italic or
\* code span) or the bullet of the enclosing list item is still running,
\* the last write made for the token is a non-continued text write.
WroteContinued(ws) ==
    \E k \in 1..Len(ws) : ws[k].kind = "text" /\ ws[k].continued

C15_NoContinuedRunLeftOpen ==
    (token.type = "inline" /\ (ctx.inList \/ WroteContinued(writes)))
        => /\ writes # <<>>
           /\ writes[Len(writes)].kind = "text"
           /\ ~writes[Len(writes)].continued

\* C14: a paragraph_open, paragraph_close, heading_open, heading_close,
\* bullet_list_open, list_item_close or hr token moves the canvas write
\* position down by its fixed spacing: the position after the token is the
\* position before it plus 5 or 10 (for hr 10 before the rule and 10 after).
Spacing(ty) ==
    CASE ty \in {"paragraph_open", "bullet_list_open", "list_item_close"} -> 5
      [] ty \in {"paragraph_close", "heading_open", "heading_close"} -> 10
      [] ty = "hr" -> 20
      [] OTHER -> 0

C14_SpacingMovesWritePosition ==
    Spacing(token.type) # 0 => docDy = Spacing(token.type)

\* C11: no drawing instruction is split across pages: the vertical extent
\* of every filled rectangle, stroked line and text line made for a token
\* fits the usable height of one page.
C11_InstructionWithinOnePage ==
    \A k \in 1..Len(writes) : writes[k].h <= UsableHeight

\* C13: content load and PDF capture each run under a finite timeout and
\* are called once, so a request that has reached the render steps, waiting
\* for page.setContent or page.pdf, is eventually answered; when the time
\* runs out the answer is the 500 failure.
C13_RenderStepsEventuallyAnswered ==
    \A r \in Reqs : (pc[r] \in {"setContent", "pdf"}) ~> (resp[r] # <<>>)

====
